---- MODULE Spec2Model ----
(***************************************************************************)
(* A model of scripts/decode-jwt.py: the base64url decoder, the three-part *)
(* token formatter pretty_print_jwt and the command-line entry point main. *)
(*                                                                         *)
(* Text is a sequence of one-character strings, bytes are a sequence of    *)
(* integers 0..255, decoded JSON text is a sequence of code points.  What  *)
(* is written to a stream is a sequence of lines, one for each print, and  *)
(* a line is a sequence of chunks: a fixed text of the program is one      *)
(* chunk, data is one chunk per character.                                 *)
(*                                                                         *)
(* The environment of a run is the encoding of the standard streams        *)
(* (sys.stdout.encoding, as PYTHONIOENCODING or the locale sets it):        *)
(* 'utf-8', 'ascii' or 'cp864'.  A print raises UnicodeEncodeError when    *)
(* that encoding lacks a character of the text: 'ascii' lacks every        *)
(* character outside ASCII, 'cp864' lacks the per cent sign too, which     *)
(* JSON text may hold.  The prints of lines 41-57 are inside the try, so   *)
(* the handler reports the exception after the lines already printed.  The *)
(* characters of the tokens are ASCII and one character outside ASCII,     *)
(* chr(233).                                                               *)
(*                                                                         *)
(* The library calls are modelled by what they do: str.strip and           *)
(* str.split, base64.b64decode in its non-strict mode, json.loads of bytes *)
(* (the encoding detected from the first bytes, the decoder with           *)
(* 'surrogatepass', the scanner with its error messages and positions,     *)
(* float() and its repr) and json.dumps with indent=2.                     *)
(*                                                                         *)
(* Limits of the model:                                                    *)
(*  - the device behind a stream takes what is written to it: no OSError   *)
(*    (a closed pipe, a full disk) is raised by a print;                   *)
(*  - whitespace outside ASCII, which str.strip removes too, and lone      *)
(*    surrogates, which 'utf-8' refuses to encode, are not among the       *)
(*    characters of the tokens;                                            *)
(*  - RecursionError is left out.  In CPython 3.11 json.loads raises it on *)
(*    a document nested 994 deep, before anything is printed, and          *)
(*    json.dumps raises it on a document nested 993 deep around a float,   *)
(*    after the heading of its block is printed: one more way for a print  *)
(*    statement to reach the handler.  Documents nested deeper than some   *)
(*    fifteen levels are not evaluated here;                               *)
(*  - a number is of at most 10^9 digits (MAX_DIGITS of float(), which     *)
(*    refuses a longer one); its exponent is of any length;                *)
(*  - the grave accent cannot be written in a string and is shown as       *)
(*    "U+0060".                                                            *)
(***************************************************************************)
EXTENDS Integers, Sequences, FiniteSets

\* ------------------------------------------------------------------ bounds

\* Longest command-line argument or standard input text.
MaxTokenLen == 7

\* Longest segment handed to decode_base64url on its own.
MaxSegLen == 6

\* Longest signature segment put in place of a token's own.
MaxSigLen == 2

\* Longest run of whitespace put around a token.
MaxWs == 1

\* Longest byte string encoded and decoded again.
MaxBytes == 3

\* ---------------------------------------------------------------- alphabets

\* Characters of the tokens given to the program.
TokenAlphabet == {"M", "Q", ".", " "}

\* Characters of the segments given to decode_base64url on its own.
SegAlphabet == {"M", "Q", "-", "_", "=", "!"}

\* Characters of the signature segments put in place of a token's own.
SigAlphabet == {"M", "!"}

\* Whitespace characters put around a token, besides the spaces of the tokens
\* themselves.
WsAlphabet == {"\t", "\n"}

\* Byte values of the byte strings that are encoded and decoded again.
ByteAlphabet == {45, 48, 49, 251, 255}

\* All sequences over S of length at most n.
StringsUpTo(S, n) == UNION {[1..k -> S] : k \in 0..n}

\* ---------------------------------------------------------------- sequences

\* The first index at which the sequence of truth values b holds TRUE,
\* Len(b) + 1 when there is none.
First(b) ==
    IF \E i \in 1..Len(b) : b[i]
    THEN CHOOSE i \in 1..Len(b) : b[i] /\ \A j \in 1..(i - 1) : ~b[j]
    ELSE Len(b) + 1

\* The last index at which b holds TRUE, 0 when there is none.
Last(b) ==
    IF \E i \in 1..Len(b) : b[i]
    THEN CHOOSE i \in 1..Len(b) : b[i] /\ \A j \in (i + 1)..Len(b) : ~b[j]
    ELSE 0

\* The indices at which b holds TRUE, in their order.
Indices(b) ==
    LET Holds(i) == b[i]
    IN  SelectSeq([i \in 1..Len(b) |-> i], Holds)

\* The concatenation of the sequences of a sequence.
RECURSIVE Flatten(_)
Flatten(ss) ==
    IF Len(ss) = 0 THEN <<>>
    ELSE IF Len(ss) = 1 THEN ss[1]
    ELSE LET h == Len(ss) \div 2
         IN  Flatten(SubSeq(ss, 1, h)) \o Flatten(SubSeq(ss, h + 1, Len(ss)))

\* The sequences of a sequence, concatenated with sep between them.
Join(ss, sep) == Flatten([i \in 1..Len(ss) |-> IF i = 1 THEN ss[i] ELSE sep \o ss[i]])

\* ------------------------------------------------------- strings (builtins)

\* The ASCII characters str.strip() removes: space, \t, \n, \r, \f and the
\* control characters VT (0x0b), FS, GS, RS, US (0x1c to 0x1f).
IsSpace(c) == c \in {" ", "\t", "\n", "\r", "\f", "", "", "", "", ""}

\* str.strip(): leading and trailing whitespace removed.
Strip(s) ==
    LET lo == First([i \in 1..Len(s) |-> ~IsSpace(s[i])])
        hi == Last([i \in 1..Len(s) |-> ~IsSpace(s[i])])
    IN  SubSeq(s, lo, hi)

\* str.split(sep): the pieces between the occurrences of sep; a text without
\* sep (the empty text too) is one piece.
Split(s, sep) ==
    LET at == Indices([i \in 1..Len(s) |-> s[i] = sep])
        n  == Len(at)
    IN  [k \in 1..(n + 1) |->
            SubSeq(s, IF k = 1 THEN 1 ELSE at[k - 1] + 1,
                      IF k = n + 1 THEN Len(s) ELSE at[k] - 1)]

\* str.replace(old, new) for single characters.
Replace(s, old, new) == [i \in 1..Len(s) |-> IF s[i] = old THEN new ELSE s[i]]

\* c * n for a single character c.
Repeat(c, n) == [i \in 1..n |-> c]

\* str(n) for an integer n: its decimal digits, as characters.
Digit(d) == <<"0", "1", "2", "3", "4", "5", "6", "7", "8", "9">>[d + 1]

RECURSIVE NatDigits(_)
NatDigits(n) == IF n < 10 THEN <<Digit(n)>> ELSE Append(NatDigits(n \div 10), Digit(n % 10))

\* The characters of the code points 32 to 126, in their order: chr(c) is
\* Printable[c - 31].  The grave accent (96) cannot be written in a string
\* here and stands as "U+0060".
Printable ==
    << " ", "!", "\"", "#", "$", "%", "&", "'", "(", ")", "*", "+", ",", "-", ".", "/",
       "0", "1", "2", "3", "4", "5", "6", "7", "8", "9", ":", ";", "<", "=", ">", "?",
       "@", "A", "B", "C", "D", "E", "F", "G", "H", "I", "J", "K", "L", "M", "N", "O",
       "P", "Q", "R", "S", "T", "U", "V", "W", "X", "Y", "Z", "[", "\\", "]", "^", "_",
       "U+0060", "a", "b", "c", "d", "e", "f", "g", "h", "i", "j", "k", "l", "m", "n", "o",
       "p", "q", "r", "s", "t", "u", "v", "w", "x", "y", "z", "{", "|", "}", "~" >>

Chr(c) == Printable[c - 31]

\* The character of the tokens outside ASCII: chr(233), e with an acute accent.
EAcute == "é"

IsAscii(c) == c # EAcute

\* ord(c) for a line feed, a printable ASCII character or chr(233).
Ord(c) ==
    IF c = "\n" THEN 10
    ELSE IF c = EAcute THEN 233
    ELSE 31 + (CHOOSE k \in 1..95 : Printable[k] = c)

\* ------------------------------------------------------------ base64 (library)

\* The standard base64 alphabet: the character of value v is B64Chars[v + 1].
B64Chars ==
    << "A", "B", "C", "D", "E", "F", "G", "H", "I", "J", "K", "L", "M",
       "N", "O", "P", "Q", "R", "S", "T", "U", "V", "W", "X", "Y", "Z",
       "a", "b", "c", "d", "e", "f", "g", "h", "i", "j", "k", "l", "m",
       "n", "o", "p", "q", "r", "s", "t", "u", "v", "w", "x", "y", "z",
       "0", "1", "2", "3", "4", "5", "6", "7", "8", "9", "+", "/" >>

IsB64Char(c) == \E i \in 1..64 : B64Chars[i] = c

B64Value(c) == (CHOOSE i \in 1..64 : B64Chars[i] = c) - 1

\* The base64url alphabet of the tokens: A-Z a-z 0-9 - _
IsB64UrlChar(c) == c \in {"-", "_"} \/ (IsB64Char(c) /\ c \notin {"+", "/"})

\* An exception: its type and its message, a sequence of chunks of text.
Exc(type, msg) == [type |-> type, msg |-> msg]

\* binascii.a2b_base64 in its default, non-strict mode.  A character outside
\* the alphabet is skipped.  With q the number of data characters read so far
\* modulo 4, a '=' ends the input when q = 3, or when q = 2 and it is the
\* second '=' since the last data character, and is skipped otherwise.  Every
\* four data characters give three bytes, a last group of two or three gives
\* one or two; input that ends in a group of two or three is refused, and so is
\* input that ends in a group of one.
a2b_base64(s) ==
    LET DataBefore(i) == Cardinality({j \in 1..(i - 1) : IsB64Char(s[j])})
        PadBefore(i) ==
            \E j \in 1..(i - 1) :
                s[j] = "=" /\ \A k \in (j + 1)..(i - 1) : ~IsB64Char(s[k])
        Ends(i) ==
            /\ s[i] = "="
            /\ \/ DataBefore(i) % 4 = 3
               \/ DataBefore(i) % 4 = 2 /\ PadBefore(i)
        end  == First([i \in 1..Len(s) |-> Ends(i)])
        d    == SelectSeq(SubSeq(s, 1, end - 1), IsB64Char)
        v(k) == B64Value(d[k])
        q    == Len(d) % 4
        n    == (Len(d) \div 4) * 3 + (IF q >= 2 THEN q - 1 ELSE 0)
        out  == [k \in 1..n |->
                    LET g == ((k - 1) \div 3) * 4
                    IN  CASE k % 3 = 1 -> v(g + 1) * 4 + v(g + 2) \div 16
                          [] k % 3 = 2 -> (v(g + 2) % 16) * 16 + v(g + 3) \div 4
                          [] k % 3 = 0 -> (v(g + 3) % 4) * 64 + v(g + 4)]
    IN  IF end <= Len(s) \/ q = 0 THEN [ok |-> TRUE, bytes |-> out]
        ELSE IF q = 1 THEN
            [ok |-> FALSE,
             exc |-> Exc("binascii.Error",
                         <<"Invalid base64-encoded string: number of data characters (">>
                         \o NatDigits((n \div 3) * 4 + 1)
                         \o <<") cannot be 1 more than a multiple of 4">>)]
        ELSE [ok |-> FALSE, exc |-> Exc("binascii.Error", <<"Incorrect padding">>)]

\* base64.b64decode(s) for a text s: s is encoded as ASCII first, and a text
\* with a character outside ASCII is refused with ValueError.
b64decode(s) ==
    IF \E i \in 1..Len(s) : ~IsAscii(s[i])
    THEN [ok |-> FALSE,
          exc |-> Exc("ValueError", <<"string argument should contain only ASCII characters">>)]
    ELSE a2b_base64(s)

\* ------------------------------------------------------------ decode_base64url

\* add_padding without the test for a computed padding of 4.
add_padding_always(data) == data \o Repeat("=", 4 - (Len(data) % 4))

\* Lines 15-17: '=' appended up to a multiple of four characters; a computed
\* padding of 4 adds nothing.
add_padding(data) ==
    LET padding == 4 - (Len(data) % 4)
    IN  IF padding # 4 THEN data \o Repeat("=", padding) ELSE data

\* translate that replaces '-' only.
translate_dash_only(data) == Replace(data, "-", "+")

\* Line 20: the URL-safe characters replaced by the standard ones.
translate(data) == Replace(Replace(data, "-", "+"), "_", "/")

\* decode_base64url(data): [ok |-> TRUE, bytes] or [ok |-> FALSE, exc].
decode_base64url(data) == b64decode(translate(add_padding(data)))


\* ------------------------------------------------------------ codecs (library)

\* A function on 1..n as a sequence of n computed values.
Seq1(f, n) == SubSeq(f, 1, n)

HexDigit(d) ==
    <<"0", "1", "2", "3", "4", "5", "6", "7", "8", "9", "a", "b", "c", "d", "e", "f">>[d + 1]

\* '%02x' % x for a byte x.
Hex2(x) == <<HexDigit(x \div 16), HexDigit(x % 16)>>

\* '%04x' % x for x below 0x10000.
Hex4(x) == Hex2(x \div 256) \o Hex2(x % 256)

\* str(UnicodeDecodeError(codec, b, s, e, reason)): s and e are the 0-based
\* bounds of the bytes refused, e not included.
UnicodeDecodeError(codec, b, s, e, reason) ==
    Exc("UnicodeDecodeError",
        IF e - s = 1
        THEN <<"'", codec, "' codec can't decode byte 0x">> \o Hex2(b[s + 1])
             \o <<" in position ">> \o NatDigits(s) \o <<": ", reason>>
        ELSE <<"'", codec, "' codec can't decode bytes in position ">> \o NatDigits(s)
             \o <<"-">> \o NatDigits(e - 1) \o <<": ", reason>>)

\* str(UnicodeEncodeError(codec, text, s, e, reason)): s and e are the 0-based
\* bounds of the characters refused, e not included.  A single character is
\* shown escaped: '\xhh' below 0x100, '\uhhhh' below 0x10000.
UnicodeEncodeError(codec, text, s, e, reason) ==
    Exc("UnicodeEncodeError",
        IF e - s = 1
        THEN <<"'", codec, "' codec can't encode character '\\">>
             \o (IF Ord(text[s + 1]) < 256 THEN <<"x">> \o Hex2(Ord(text[s + 1]))
                 ELSE <<"u">> \o Hex4(Ord(text[s + 1])))
             \o <<"' in position ">> \o NatDigits(s) \o <<": ", reason>>
        ELSE <<"'", codec, "' codec can't encode characters in position ">> \o NatDigits(s)
             \o <<"-">> \o NatDigits(e - 1) \o <<": ", reason>>)

\* codec.encode(text) with errors='strict': lacks[i] tells whether the codec
\* lacks text[i], and the first run of such characters is refused.  Only
\* whether the text is encoded is of use here, not the bytes.
strict_encode(codec, text, lacks, reason) ==
    LET Refused(s) ==
            UnicodeEncodeError(codec, text, s - 1,
                               s - 1 + First([i \in 1..(Len(text) - s + 1) |->
                                                i = Len(text) - s + 1 \/ ~lacks[s + i]]),
                               reason)
        Checked(s) == IF s > Len(text) THEN [ok |-> TRUE] ELSE [ok |-> FALSE, exc |-> Refused(s)]
    IN  Checked(First(lacks))

\* Whether the code page 864 has the character c: of the characters here it
\* lacks the per cent sign and chr(233).
IsCp864(c) == c \notin {"%", EAcute}

\* The text layer of a standard stream encoding a text it is to write, with
\* errors='strict'.  'utf-8' has every character of the tokens, 'ascii' lacks
\* chr(233), and 'cp864', a charmap codec, lacks '%' too.
stdout_encode(encoding, text) ==
    IF encoding = "ascii"
    THEN strict_encode("ascii", text, [i \in 1..Len(text) |-> ~IsAscii(text[i])],
                       "ordinal not in range(128)")
    ELSE IF encoding = "cp864"
    THEN strict_encode("charmap", text, [i \in 1..Len(text) |-> ~IsCp864(text[i])],
                       "character maps to <undefined>")
    ELSE [ok |-> TRUE]

IsCont(x) == x \in 128..191

\* The UTF-8 sequence that starts at b[i]: its length and code point, or the
\* 0-based bounds of the bytes refused and the reason.  The three bytes of a
\* surrogate are refused by the decoder and passed by 'surrogatepass'.
Utf8At(b, i) ==
    LET n  == Len(b)
        r  == n - i + 1
        c  == b[i]
        c2 == b[i + 1]
        c3 == b[i + 2]
        c4 == b[i + 3]
        Good(len, cp) == [ok |-> TRUE, len |-> len, cp |-> cp]
        Bad(len) == [ok |-> FALSE, start |-> i - 1, end |-> i - 1 + len,
                     reason |-> "invalid continuation byte"]
        AtEnd == [ok |-> FALSE, start |-> i - 1, end |-> n,
                  reason |-> "unexpected end of data"]
    IN  IF c < 128 THEN Good(1, c)
        ELSE IF c < 194 \/ c > 244
        THEN [ok |-> FALSE, start |-> i - 1, end |-> i, reason |-> "invalid start byte"]
        ELSE IF c < 224
        THEN IF r < 2 THEN AtEnd
             ELSE IF ~IsCont(c2) THEN Bad(1)
             ELSE Good(2, (c - 192) * 64 + (c2 - 128))
        ELSE IF c < 240
        THEN IF r < 2 THEN AtEnd
             ELSE IF ~IsCont(c2) \/ (c = 224 /\ c2 < 160) THEN Bad(1)
             ELSE IF c = 237 /\ c2 >= 160
             THEN IF r >= 3 /\ IsCont(c3)
                  THEN Good(3, (c - 224) * 4096 + (c2 - 128) * 64 + (c3 - 128))
                  ELSE Bad(1)
             ELSE IF r < 3 THEN AtEnd
             ELSE IF ~IsCont(c3) THEN Bad(2)
             ELSE Good(3, (c - 224) * 4096 + (c2 - 128) * 64 + (c3 - 128))
        ELSE IF r < 2 THEN AtEnd
             ELSE IF ~IsCont(c2) \/ (c = 240 /\ c2 < 144) \/ (c = 244 /\ c2 >= 144)
             THEN Bad(1)
             ELSE IF r < 3 THEN AtEnd
             ELSE IF ~IsCont(c3) THEN Bad(2)
             ELSE IF r < 4 THEN AtEnd
             ELSE IF ~IsCont(c4) THEN Bad(3)
             ELSE Good(4, (c - 240) * 262144 + (c2 - 128) * 4096
                          + (c3 - 128) * 64 + (c4 - 128))

\* bytes.decode('utf-8', 'surrogatepass'): the code points of the text, or the
\* error of the first sequence refused.  A byte is inside a sequence when a
\* well-formed sequence that starts up to three bytes before it reaches it;
\* every other byte starts a sequence.
Utf8Decode(b) ==
    LET n  == Len(b)
        at == Seq1([i \in 1..n |-> Utf8At(b, i)], n)
        Inside(i) == \E d \in 1..3 : i - d >= 1 /\ at[i - d].ok /\ at[i - d].len > d
        bad == First([i \in 1..n |-> ~at[i].ok /\ ~Inside(i)])
        starts == Indices([i \in 1..n |-> ~Inside(i)])
    IN  IF bad <= n
        THEN [ok |-> FALSE,
              exc |-> UnicodeDecodeError("utf-8", b, at[bad].start, at[bad].end, at[bad].reason)]
        ELSE [ok |-> TRUE, text |-> Seq1([k \in 1..Len(starts) |-> at[starts[k]].cp], Len(starts))]

IsHigh(u) == u \in 55296..56319

IsLow(u) == u \in 56320..57343

\* bytes.decode('utf-16-be' or 'utf-16-le', 'surrogatepass') of b[start+1..]:
\* a high surrogate and the low one after it are one code point, any other
\* surrogate passes on its own; an odd last byte is refused.
Utf16Decode(b, be, name, start) ==
    LET n == Len(b)
        m == (n - start) \div 2
        u == Seq1([k \in 1..m |->
                    LET x == b[start + 2 * k - 1]
                        y == b[start + 2 * k]
                    IN  IF be THEN x * 256 + y ELSE y * 256 + x], m)
        Second(k) == k > 1 /\ IsLow(u[k]) /\ IsHigh(u[k - 1])
        starts == Indices([k \in 1..m |-> ~Second(k)])
        cp(k) == IF IsHigh(u[k]) /\ k < m /\ IsLow(u[k + 1])
                 THEN 65536 + (u[k] - 55296) * 1024 + (u[k + 1] - 56320)
                 ELSE u[k]
    IN  IF (n - start) % 2 = 1
        THEN [ok |-> FALSE, exc |-> UnicodeDecodeError(name, b, n - 1, n, "truncated data")]
        ELSE [ok |-> TRUE, text |-> Seq1([k \in 1..Len(starts) |-> cp(starts[k])], Len(starts))]

\* bytes.decode('utf-32-be' or 'utf-32-le', 'surrogatepass') of b[start+1..]:
\* four bytes are one code point, refused from 0x110000 on; a last group of
\* fewer than four bytes is refused.
Utf32Decode(b, be, name, start) ==
    LET n == Len(b)
        m == (n - start) \div 4
        Byte(k, j) == b[start + 4 * (k - 1) + (IF be THEN j ELSE 5 - j)]
        TooBig(k) == Byte(k, 1) # 0 \/ Byte(k, 2) > 16
        bad == First([k \in 1..m |-> TooBig(k)])
    IN  IF bad <= m
        THEN [ok |-> FALSE,
              exc |-> UnicodeDecodeError(name, b, start + 4 * (bad - 1), start + 4 * bad,
                                         "code point not in range(0x110000)")]
        ELSE IF (n - start) % 4 # 0
        THEN [ok |-> FALSE, exc |-> UnicodeDecodeError(name, b, start + 4 * m, n, "truncated data")]
        ELSE [ok |-> TRUE,
              text |-> Seq1([k \in 1..m |-> Byte(k, 2) * 65536 + Byte(k, 3) * 256 + Byte(k, 4)], m)]

\* Whether b begins with the bytes p.
StartsWith(b, p) == Len(b) >= Len(p) /\ SubSeq(b, 1, Len(p)) = p

\* json.loads(b) for bytes: b.decode(json.detect_encoding(b), 'surrogatepass').
\* A byte-order mark names the encoding and is left out of the text; without
\* one, the place of the NUL bytes among the first four bytes does.
DecodeDetected(b) ==
    LET n == Len(b)
    IN  IF StartsWith(b, <<0, 0, 254, 255>>) THEN Utf32Decode(b, TRUE, "utf-32-be", 4)
        ELSE IF StartsWith(b, <<255, 254, 0, 0>>) THEN Utf32Decode(b, FALSE, "utf-32-le", 4)
        ELSE IF StartsWith(b, <<254, 255>>) THEN Utf16Decode(b, TRUE, "utf-16-be", 2)
        ELSE IF StartsWith(b, <<255, 254>>) THEN Utf16Decode(b, FALSE, "utf-16-le", 2)
        ELSE IF StartsWith(b, <<239, 187, 191>>) THEN Utf8Decode(SubSeq(b, 4, n))
        ELSE IF n >= 4 /\ b[1] = 0
        THEN IF b[2] # 0 THEN Utf16Decode(b, TRUE, "utf-16-be", 0)
             ELSE Utf32Decode(b, TRUE, "utf-32-be", 0)
        ELSE IF n >= 4 /\ b[2] = 0
        THEN IF b[3] # 0 \/ b[4] # 0 THEN Utf16Decode(b, FALSE, "utf-16-le", 0)
             ELSE Utf32Decode(b, FALSE, "utf-32-le", 0)
        ELSE IF n = 2 /\ b[1] = 0 THEN Utf16Decode(b, TRUE, "utf-16-be", 0)
        ELSE IF n = 2 /\ b[2] = 0 THEN Utf16Decode(b, FALSE, "utf-16-le", 0)
        ELSE Utf8Decode(b)

\* ------------------------------------------------------------- float (builtin)
\* float(literal) and repr(float), on decimal digits: a number is a sequence of
\* digits 0..9 with a known place for the decimal point.

Zeros(n) == [i \in 1..n |-> 0]

\* The digits of 2 * d, one more digit in front.
Double(d) ==
    LET e == <<0>> \o d
        n == Len(e)
    IN  Seq1([i \in 1..n |-> ((2 * e[i]) % 10) + (IF i < n /\ e[i + 1] >= 5 THEN 1 ELSE 0)], n)

\* The digits of d / 2, one more digit behind.
Halve(d) ==
    LET e == d \o <<0>>
        n == Len(e)
    IN  Seq1([i \in 1..n |-> (e[i] \div 2) + (IF i > 1 /\ e[i - 1] % 2 = 1 THEN 5 ELSE 0)], n)

\* d * 2^n, n more digits in front.
RECURSIVE Times2(_, _)
Times2(d, n) ==
    IF n = 0 THEN d
    ELSE IF n = 1 THEN Double(d)
    ELSE LET h == Times2(d, n \div 2)
         IN  IF Len(h) = 0 THEN h ELSE Times2(h, n - (n \div 2))

\* d / 2^n, n more digits behind.
RECURSIVE Over2(_, _)
Over2(d, n) ==
    IF n = 0 THEN d
    ELSE IF n = 1 THEN Halve(d)
    ELSE LET h == Over2(d, n \div 2)
         IN  IF Len(h) = 0 THEN h ELSE Over2(h, n - (n \div 2))

\* d + 1 in the digits of d, which are not all 9.
Inc(d) ==
    LET k == Last([i \in 1..Len(d) |-> d[i] # 9])
    IN  Seq1([i \in 1..Len(d) |-> IF i < k THEN d[i] ELSE IF i = k THEN d[i] + 1 ELSE 0], Len(d))

\* d - 1 in the digits of d, which are not all 0.
Dec(d) ==
    LET k == Last([i \in 1..Len(d) |-> d[i] # 0])
    IN  Seq1([i \in 1..Len(d) |-> IF i < k THEN d[i] ELSE IF i = k THEN d[i] - 1 ELSE 9], Len(d))

\* -1, 0 or 1 as a is below, equal to or above b, of the same length.
Cmp(a, b) ==
    LET k == First([i \in 1..Len(a) |-> a[i] # b[i]])
    IN  IF k > Len(a) THEN 0 ELSE IF a[k] < b[k] THEN -1 ELSE 1

\* d without its leading zeros.
Trim(d) == SubSeq(d, First([i \in 1..Len(d) |-> d[i] # 0]), Len(d))

\* d without its trailing zeros.
TrimRight(d) == SubSeq(d, 1, Last([i \in 1..Len(d) |-> d[i] # 0]))

\* Cmp for natural numbers of any length.
CmpNat(a, b) ==
    LET x == Trim(a)
        y == Trim(b)
    IN  IF Len(x) # Len(y) THEN (IF Len(x) < Len(y) THEN -1 ELSE 1) ELSE Cmp(x, y)

\* 2^52 and 2^53: the mantissa m of a double m * 2^e2 is in [2^52, 2^53), or
\* below 2^52 with e2 = -1074.
P52 == <<4, 5, 0, 3, 5, 9, 9, 6, 2, 7, 3, 7, 0, 4, 9, 6>>

P53 == <<9, 0, 0, 7, 1, 9, 9, 2, 5, 4, 7, 4, 0, 9, 9, 2>>

\* Smallest binary exponent of a double, and the largest of a finite one.
MinExp2 == -1074

MaxExp2 == 971

\* Decimal exponents from which every literal is infinite, and up to which
\* every literal is zero.
InfDecpt == 311

ZeroDecpt == -325

\* 0.D * 10^decpt / 2^e2: the digits before and after the decimal point.
Scaled(D, decpt, e2) ==
    LET n == Len(D)
        d == IF decpt <= 0 THEN Zeros(-decpt) \o D
             ELSE IF decpt >= n THEN D \o Zeros(decpt - n) ELSE D
        p == IF decpt <= 0 THEN 0 ELSE decpt
        r == IF e2 >= 0 THEN Over2(d, e2) ELSE Times2(d, -e2)
        q == IF e2 >= 0 THEN p ELSE p - e2
    IN  [int |-> SubSeq(r, 1, q), frac |-> SubSeq(r, q + 1, Len(r))]

\* The e2 for which the integer part of 0.D * 10^decpt / 2^e2 is in
\* [2^52, 2^53), found from the estimate e2.
RECURSIVE Fit(_, _, _)
Fit(D, decpt, e2) ==
    LET i == Scaled(D, decpt, e2).int
    IN  IF CmpNat(i, P52) < 0 THEN Fit(D, decpt, e2 - 1)
        ELSE IF CmpNat(i, P53) >= 0 THEN Fit(D, decpt, e2 + 1)
        ELSE e2

\* float(): the double nearest to 0.D * 10^decpt, ties to the even mantissa.
\* D has no leading or trailing zero and is not empty.  The value is scaled to
\* the binary exponent e2 that fits, or to the smallest one; its integer part i
\* of 16 digits is rounded by its fraction f, and a mantissa rounded up to 2^53
\* is 2^52 at the next exponent.
ToDouble(D, decpt) ==
    LET Number(m, e2) ==
            IF e2 > MaxExp2 THEN [kind |-> "inf"]
            ELSE IF \A k \in 1..16 : m[k] = 0 THEN [kind |-> "zero"]
            ELSE [kind |-> "num", m |-> m, e2 |-> e2]
        Carried(m, e2) == IF m = P53 THEN Number(P52, e2 + 1) ELSE Number(m, e2)
        Rounded(i, f, e2) ==
            LET up == /\ Len(f) > 0
                      /\ \/ f[1] > 5
                         \/ /\ f[1] = 5
                            /\ \/ \E k \in 2..Len(f) : f[k] # 0
                               \/ i[16] % 2 = 1
            IN  Carried(IF up THEN Inc(i) ELSE i, e2)
        Aligned(int) == SubSeq(Zeros(16) \o int, Len(int) + 1, Len(int) + 16)
        At(s, e2) == Rounded(Aligned(s.int), s.frac, e2)
        From(e2) == At(Scaled(D, decpt, e2), e2)
        Clamped(fit) == From(IF fit < MinExp2 THEN MinExp2 ELSE fit)
    IN  IF decpt >= InfDecpt THEN [kind |-> "inf"]
        ELSE IF decpt <= ZeroDecpt THEN [kind |-> "zero"]
        ELSE Clamped(Fit(D, decpt, ((decpt * 3322) \div 1000) - 53))

\* repr(): the shortest digits that read back as the double m * 2^e2, the
\* nearest to it when several do; digits and decpt stand for 0.digits * 10^decpt.
\* X is four times the double, L and U are four times the midpoints to its
\* neighbours, all with P digits before the decimal point.
RECURSIVE ShortestFrom(_, _, _, _, _, _)
ShortestFrom(X, L, U, incl, top, p) ==
    LET n    == Len(X)
        j    == top + p
        head == SubSeq(X, 1, j)
        dn   == head \o Zeros(n - j)
        canup == \E k \in 1..j : head[k] # 9
        upc  == Inc(head) \o Zeros(n - j)
        okd  == Cmp(dn, L) > 0 \/ (incl /\ Cmp(dn, L) = 0)
        oku  == canup /\ (Cmp(upc, U) < 0 \/ (incl /\ Cmp(upc, U) = 0))
        rest == SubSeq(X, j + 1, n)
        half == Cmp(rest, <<5>> \o Zeros(Len(rest) - 1))
    IN  IF j >= n THEN X
        ELSE IF okd /\ oku
        THEN IF half > 0 \/ (half = 0 /\ X[j] % 2 = 1) THEN upc ELSE dn
        ELSE IF okd THEN dn
        ELSE IF oku THEN upc
        ELSE ShortestFrom(X, L, U, incl, top, p + 1)

Shortest(m, e2) ==
    LET boundary == m = P52 /\ e2 > MinExp2
        m4 == Double(Double(m))
        s  == e2 - 2
        Scale(d) == IF s >= 0 THEN Times2(d, s) ELSE Over2(d, -s)
        X  == Scale(m4)
        U  == Scale(Inc(Inc(m4)))
        L  == Scale(IF boundary THEN Dec(m4) ELSE Dec(Dec(m4)))
        P  == IF s >= 0 THEN 18 + s ELSE 18
        top == First([i \in 1..Len(U) |-> U[i] # 0]) - 1
        c  == ShortestFrom(X, L, U, m[16] % 2 = 0, top, 1)
        lo == First([i \in 1..Len(c) |-> c[i] # 0])
    IN  [digits |-> TrimRight(SubSeq(c, lo, Len(c))), decpt |-> P - (lo - 1)]

DigitChars(ds) == [i \in 1..Len(ds) |-> Digit(ds[i])]

\* float_repr_style 'r': the digits sh.digits of 0.digits * 10^sh.decpt in
\* fixed notation when -4 < decpt <= 16, with an exponent of two digits or more
\* otherwise.
FormatFloat(neg, sh) ==
    LET sign == IF neg THEN <<"-">> ELSE <<>>
        s == DigitChars(sh.digits)
        n == Len(s)
        decpt == sh.decpt
        e == decpt - 1
        a == IF e < 0 THEN -e ELSE e
    IN  IF -4 < decpt /\ decpt <= 16
        THEN IF decpt <= 0 THEN sign \o <<"0", ".">> \o Repeat("0", -decpt) \o s
             ELSE IF n <= decpt THEN sign \o s \o Repeat("0", decpt - n) \o <<".", "0">>
             ELSE sign \o SubSeq(s, 1, decpt) \o <<".">> \o SubSeq(s, decpt + 1, n)
        ELSE sign \o <<s[1]>> \o (IF n > 1 THEN <<".">> \o SubSeq(s, 2, n) ELSE <<>>)
             \o <<"e", IF e < 0 THEN "-" ELSE "+">>
             \o (IF a < 10 THEN <<"0">> ELSE <<>>) \o NatDigits(a)

\* The exponent digits float() reads exactly, leading zeros apart: an exponent
\* of more digits is taken as MAX_ABS_EXP.
MaxExpDigits == 9

\* The value of a sequence of digits.

RECURSIVE DigitsValue(_)
DigitsValue(ds) ==
    IF Len(ds) = 0 THEN 0 ELSE DigitsValue(SubSeq(ds, 1, Len(ds) - 1)) * 10 + ds[Len(ds)]

\* The exponent float() takes in place of a longer or a larger one.  A number
\* of at most 10^9 digits with it is an infinity or a zero, as with its own.
MAX_ABS_EXP == 1100000000

\* repr() of the double r that ToDouble gave, negative when neg.
float_repr(neg, r) ==
    IF r.kind = "inf" THEN (IF neg THEN <<"-">> ELSE <<>>) \o <<"I", "n", "f", "i", "n", "i", "t", "y">>
    ELSE IF r.kind = "zero" THEN (IF neg THEN <<"-">> ELSE <<>>) \o <<"0", ".", "0">>
    ELSE FormatFloat(neg, Shortest(r.m, r.e2))

\* json.dumps(float(literal)) for the literal [-]ip[.fp][e[-]ed]: ip, fp and ed
\* are the digits of the integer part, the fraction and the exponent.
FloatText(neg, ip, fp, eneg, ed) ==
    LET ds == ip \o fp
        D  == Trim(ds)
        Exponent(et) ==
            IF Len(et) > MaxExpDigits THEN (IF eneg THEN -MAX_ABS_EXP ELSE MAX_ABS_EXP)
            ELSE IF eneg THEN -DigitsValue(et) ELSE DigitsValue(et)
        decpt == Len(ip) - (Len(ds) - Len(D)) + Exponent(Trim(ed))
    IN  IF Len(D) = 0 THEN (IF neg THEN <<"-">> ELSE <<>>) \o <<"0", ".", "0">>
        ELSE float_repr(neg, ToDouble(TrimRight(D), decpt))

\* --------------------------------------------------------------- json (library)
\* The decoder works on the code points t of the text; its indices are 0-based
\* as in the library, so the character at index i is t[i + 1].

\* A decoded value.  An int and a float are kept as the text json.dumps gives
\* them (repr), a str as its code points (chars), a list as its items, a dict
\* as its keys, in the order they were first met, and the items under them.
Value(type, repr, chars, keys, items) ==
    [type |-> type, repr |-> repr, chars |-> chars, keys |-> keys, items |-> items]

None == Value("null", <<>>, <<>>, <<>>, <<>>)

True == Value("true", <<>>, <<>>, <<>>, <<>>)

False == Value("false", <<>>, <<>>, <<>>, <<>>)

JsonInt(repr) == Value("int", repr, <<>>, <<>>, <<>>)

JsonFloat(repr) == Value("float", repr, <<>>, <<>>, <<>>)

JsonStr(chars) == Value("str", <<>>, chars, <<>>, <<>>)

JsonList(items) == Value("list", <<>>, <<>>, <<>>, items)

JsonDict(keys, items) == Value("dict", <<>>, <<>>, keys, items)

\* json.JSONDecodeError(msg, doc, pos): "msg: line L column C (char pos)".
JSONDecodeError(msg, t, pos) ==
    LET lineno == Cardinality({k \in 1..pos : t[k] = 10}) + 1
        colno  == pos - Last([k \in 1..pos |-> t[k] = 10]) + 1
    IN  Exc("JSONDecodeError",
            <<msg, ": line ">> \o NatDigits(lineno) \o <<" column ">> \o NatDigits(colno)
            \o <<" (char ">> \o NatDigits(pos) \o <<")">>)

\* sys.get_int_max_str_digits(): the longest integer literal int() converts.
MaxStrDigits == 4300

\* The ValueError of int() for a literal of n digits, n above MaxStrDigits.
ValueError(n) ==
    Exc("ValueError",
        <<"Exceeds the limit (">> \o NatDigits(MaxStrDigits)
        \o <<" digits) for integer string conversion: value has ">> \o NatDigits(n)
        \o <<" digits; use sys.set_int_max_str_digits() to increase the limit">>)

\* What a step of the decoder gives: a value and the index after it, or the
\* exception raised.
Ok(value, end) == [ok |-> TRUE, value |-> value, end |-> end]

Fail(msg, t, pos) == [ok |-> FALSE, exc |-> JSONDecodeError(msg, t, pos)]

\* The JSON whitespace: space, tab, line feed, carriage return.
IsJsonSpace(x) == x \in {32, 9, 10, 13}

IsDigit(x) == x \in 48..57

\* The first index from i on whose character is no whitespace, Len(t) when
\* there is none.
SkipSpace(t, i) == i + First([k \in 1..(Len(t) - i) |-> ~IsJsonSpace(t[i + k])]) - 1

\* The first index from i on whose character is no digit, Len(t) when there is
\* none.
SkipDigits(t, i) == i + First([k \in 1..(Len(t) - i) |-> ~IsDigit(t[i + k])]) - 1

\* How many times the character c is at the indices from i on.
CountFrom(t, i, c) == Cardinality({k \in (i + 1)..Len(t) : t[k] = c})

\* Whether the characters of word are at index i.
Lit(t, i, word) == i + Len(word) <= Len(t) /\ SubSeq(t, i + 1, i + Len(word)) = word

\* The digits at the indices a to b - 1.
Digits(t, a, b) == Seq1([k \in 1..(b - a) |-> t[a + k] - 48], b - a)

\* The value of a hexadecimal digit, -1 for any other character.
HexValue(c) ==
    IF c \in 48..57 THEN c - 48
    ELSE IF c \in 97..102 THEN c - 87
    ELSE IF c \in 65..70 THEN c - 55
    ELSE -1

\* The value of the four hexadecimal digits at index i, -1 when one is not.
Hex4Value(t, i) ==
    IF \E k \in 1..4 : HexValue(t[i + k]) = -1 THEN -1
    ELSE HexValue(t[i + 1]) * 4096 + HexValue(t[i + 2]) * 256
         + HexValue(t[i + 3]) * 16 + HexValue(t[i + 4])

\* The characters after a backslash that stand for one character: " \ / b f n r t
IsEscape(c) == c \in {34, 92, 47, 98, 102, 110, 114, 116}

Unescape(c) ==
    CASE c = 98 -> 8
      [] c = 102 -> 12
      [] c = 110 -> 10
      [] c = 114 -> 13
      [] c = 116 -> 9
      [] OTHER -> c

\* A loop of the decoder: the variables it goes on with, or what it returned.
Going(at) == [done |-> FALSE, at |-> at]

Done(r) == [done |-> TRUE, at |-> r]

\* One round of scanstring's loop, inside the string that began at index
\* begin, from index s.end on and with s.out the characters read so far: up to
\* the next quote, backslash or control character, then the escape if there is
\* one.
ScanStringStep(t, begin, s) ==
    LET n    == Len(t)
        stop == s.end + First([k \in 1..(n - s.end) |-> t[s.end + k] \in {34, 92} \/ t[s.end + k] <= 31]) - 1
        out1 == s.out \o SubSeq(t, s.end + 1, stop)
        nxt  == stop + 1
        c    == t[nxt + 1]
        u    == nxt + 1
        e    == u + 4
        c1   == Hex4Value(t, u)
        pair == /\ IsHigh(c1) /\ e + 6 < n /\ t[e + 1] = 92 /\ t[e + 2] = 117
        c2   == Hex4Value(t, e + 2)
    IN  IF stop < n /\ t[stop + 1] <= 31
        THEN Done(Fail("Invalid control character at", t, stop))
        ELSE IF stop >= n THEN Done(Fail("Unterminated string starting at", t, begin))
        ELSE IF t[stop + 1] = 34 THEN Done(Ok(out1, nxt))
        ELSE IF nxt = n THEN Done(Fail("Unterminated string starting at", t, begin))
        ELSE IF c # 117
        THEN IF ~IsEscape(c) THEN Done(Fail("Invalid \\escape", t, nxt - 1))
             ELSE Going([end |-> nxt + 1, out |-> Append(out1, Unescape(c))])
        ELSE IF e >= n THEN Done(Fail("Invalid \\uXXXX escape", t, u - 1))
        ELSE IF c1 < 0 THEN Done(Fail("Invalid \\uXXXX escape", t, e - 5))
        ELSE IF pair /\ c2 < 0 THEN Done(Fail("Invalid \\uXXXX escape", t, e + 1))
        ELSE IF pair /\ IsLow(c2)
        THEN Going([end |-> e + 6,
                    out |-> Append(out1, 65536 + (c1 - 55296) * 1024 + (c2 - 56320))])
        ELSE Going([end |-> e, out |-> Append(out1, c1)])

\* Up to n rounds of scanstring's loop from the state st.
RECURSIVE ScanStringLoop(_, _, _, _)
ScanStringLoop(t, begin, st, n) ==
    IF st.done \/ n = 0 THEN st
    ELSE IF n = 1 THEN ScanStringStep(t, begin, st.at)
    ELSE LET h == ScanStringLoop(t, begin, st, n \div 2)
         IN  IF h.done THEN h ELSE ScanStringLoop(t, begin, h, n - (n \div 2))

\* scanstring(t, end): the string whose opening quote is at index end - 1.
\* Every round but the first comes after a backslash.
scanstring(t, end) ==
    ScanStringLoop(t, end - 1, Going([end |-> end, out |-> <<>>]), CountFrom(t, end, 92) + 1).at

\* The scanner's number at index start: -?(0|[1-9][0-9]*)(\.[0-9]+)?([eE][-+]?[0-9]+)?
\* m is the match: the integer part at the indices i to j - 1, the fraction up
\* to f - 1, the digits of the exponent at ej to ek - 1.  A fraction or an
\* exponent makes the number a float; an int is kept as its digits, without the
\* sign of -0.  No number there is no value.
match_number(t, start) ==
    LET n   == Len(t)
        neg == t[start + 1] = 45
        Match(i, j, f, ej, ek) == [ok |-> TRUE, i |-> i, j |-> j, f |-> f, ej |-> ej, ek |-> ek]
        Exponent(i, j, f, ej) == Match(i, j, f, ej, IF ej > f THEN SkipDigits(t, ej) ELSE ej)
        Fraction(i, j, f) ==
            Exponent(i, j, f,
                     IF f < n - 1 /\ t[f + 1] \in {101, 69}
                     THEN IF f + 1 < n - 1 /\ t[f + 2] \in {45, 43} THEN f + 2 ELSE f + 1
                     ELSE f)
        Integer(i, j) ==
            Fraction(i, j, IF j < n - 1 /\ t[j + 1] = 46 /\ IsDigit(t[j + 2])
                           THEN SkipDigits(t, j + 1) ELSE j)
        From(i) ==
            IF i >= n \/ ~IsDigit(t[i + 1]) THEN [ok |-> FALSE]
            ELSE Integer(i, IF t[i + 1] = 48 THEN i + 1 ELSE SkipDigits(t, i))
        m == From(IF neg THEN start + 1 ELSE start)
    IN  IF ~m.ok THEN Fail("Expecting value", t, start)
        ELSE IF m.f > m.j \/ m.ek > m.ej
        THEN Ok(JsonFloat(FloatText(neg, Digits(t, m.i, m.j), Digits(t, m.j + 1, m.f),
                                    m.ek > m.ej /\ t[m.ej] = 45, Digits(t, m.ej, m.ek))),
                IF m.ek > m.ej THEN m.ek ELSE m.f)
        ELSE IF m.j - m.i > MaxStrDigits THEN [ok |-> FALSE, exc |-> ValueError(m.j - m.i)]
        ELSE Ok(JsonInt((IF neg /\ Digits(t, m.i, m.j) # <<0>> THEN <<"-">> ELSE <<>>)
                        \o DigitChars(Digits(t, m.i, m.j))), m.j)

\* The characters of printable ASCII code points.
Chars(t) == [i \in 1..Len(t) |-> Chr(t[i])]

LitNull == <<110, 117, 108, 108>>

LitTrue == <<116, 114, 117, 101>>

LitFalse == <<102, 97, 108, 115, 101>>

LitNaN == <<78, 97, 78>>

LitInfinity == <<73, 110, 102, 105, 110, 105, 116, 121>>

RECURSIVE scan_once(_, _)

\* One round of the loop of an object, from the key at index s.i on and after
\* the pairs of s.keys and s.items.  A key met again keeps its place and takes
\* the new value.
ObjectStep(t, s) ==
    LET n == Len(t)
        i == s.i
        Set(key, value) ==
            LET at == First([x \in 1..Len(s.keys) |-> s.keys[x] = key])
            IN  IF at <= Len(s.keys) THEN JsonDict(s.keys, [s.items EXCEPT ![at] = value])
                ELSE JsonDict(Append(s.keys, key), Append(s.items, value))
        Pair(d, e) ==
            IF e < n /\ t[e + 1] = 125 THEN Done(Ok(d, e + 1))
            ELSE IF e >= n \/ t[e + 1] # 44 THEN Done(Fail("Expecting ',' delimiter", t, e))
            ELSE Going([i |-> SkipSpace(t, e + 1), keys |-> d.keys, items |-> d.items])
        Item(key, v) ==
            IF ~v.ok THEN Done(v) ELSE Pair(Set(key, v.value), SkipSpace(t, v.end))
        Colon(key, c) ==
            IF c >= n \/ t[c + 1] # 58 THEN Done(Fail("Expecting ':' delimiter", t, c))
            ELSE Item(key, scan_once(t, SkipSpace(t, c + 1)))
        Key(k) == IF ~k.ok THEN Done(k) ELSE Colon(k.value, SkipSpace(t, k.end))
    IN  IF i >= n \/ t[i + 1] # 34
        THEN Done(Fail("Expecting property name enclosed in double quotes", t, i))
        ELSE Key(scanstring(t, i + 1))

\* Up to n rounds of the loop of an object from the state st.
RECURSIVE ObjectLoop(_, _, _)
ObjectLoop(t, st, n) ==
    IF st.done \/ n = 0 THEN st
    ELSE IF n = 1 THEN ObjectStep(t, st.at)
    ELSE LET h == ObjectLoop(t, st, n \div 2)
         IN  IF h.done THEN h ELSE ObjectLoop(t, h, n - (n \div 2))

\* The object whose '{' is at index i - 1.  Every round but the first comes
\* after a comma.
parse_object(t, i) ==
    LET s == SkipSpace(t, i)
    IN  IF s < Len(t) /\ t[s + 1] = 125 THEN Ok(JsonDict(<<>>, <<>>), s + 1)
        ELSE ObjectLoop(t, Going([i |-> s, keys |-> <<>>, items |-> <<>>]),
                        CountFrom(t, s, 44) + 1).at

\* One round of the loop of an array, from the value at index s.i on and after
\* the items s.items.
ArrayStep(t, s) ==
    LET n == Len(t)
        Items(items, e) ==
            IF e < n /\ t[e + 1] = 93 THEN Done(Ok(JsonList(items), e + 1))
            ELSE IF e >= n \/ t[e + 1] # 44 THEN Done(Fail("Expecting ',' delimiter", t, e))
            ELSE Going([i |-> SkipSpace(t, e + 1), items |-> items])
        Item(v) == IF ~v.ok THEN Done(v) ELSE Items(Append(s.items, v.value), SkipSpace(t, v.end))
    IN  Item(scan_once(t, s.i))

\* Up to n rounds of the loop of an array from the state st.
RECURSIVE ArrayLoop(_, _, _)
ArrayLoop(t, st, n) ==
    IF st.done \/ n = 0 THEN st
    ELSE IF n = 1 THEN ArrayStep(t, st.at)
    ELSE LET h == ArrayLoop(t, st, n \div 2)
         IN  IF h.done THEN h ELSE ArrayLoop(t, h, n - (n \div 2))

\* The array whose '[' is at index i - 1.  Every round but the first comes
\* after a comma.
parse_array(t, i) ==
    LET s == SkipSpace(t, i)
    IN  IF s < Len(t) /\ t[s + 1] = 93 THEN Ok(JsonList(<<>>), s + 1)
        ELSE ArrayLoop(t, Going([i |-> s, items |-> <<>>]), CountFrom(t, s, 44) + 1).at

\* scan_once(t, i): the value at index i and the index after it.
scan_once(t, i) ==
    LET c == t[i + 1]
        String(s) == IF s.ok THEN Ok(JsonStr(s.value), s.end) ELSE s
    IN  IF i >= Len(t) THEN Fail("Expecting value", t, i)
        ELSE IF c = 34 THEN String(scanstring(t, i + 1))
        ELSE IF c = 123 THEN parse_object(t, i + 1)
        ELSE IF c = 91 THEN parse_array(t, i + 1)
        ELSE IF Lit(t, i, LitNull) THEN Ok(None, i + 4)
        ELSE IF Lit(t, i, LitTrue) THEN Ok(True, i + 4)
        ELSE IF Lit(t, i, LitFalse) THEN Ok(False, i + 5)
        ELSE IF Lit(t, i, LitNaN) THEN Ok(JsonFloat(Chars(LitNaN)), i + 3)
        ELSE IF Lit(t, i, LitInfinity) THEN Ok(JsonFloat(Chars(LitInfinity)), i + 8)
        ELSE IF Lit(t, i, <<45>> \o LitInfinity)
        THEN Ok(JsonFloat(Chars(<<45>> \o LitInfinity)), i + 9)
        ELSE match_number(t, i)

\* json.loads(b) for bytes b: [ok |-> TRUE, value] or [ok |-> FALSE, exc].  The
\* bytes are decoded to the text t, the text is one value v, and only whitespace
\* comes after its end.
json_loads(b) ==
    LET End(t, v, e) ==
            IF e # Len(t) THEN Fail("Extra data", t, e) ELSE [ok |-> TRUE, value |-> v.value]
        Document(t, v) ==
            IF ~v.ok THEN [ok |-> FALSE, exc |-> v.exc] ELSE End(t, v, SkipSpace(t, v.end))
        Text(u) ==
            IF ~u.ok THEN [ok |-> FALSE, exc |-> u.exc]
            ELSE Document(u.text, scan_once(u.text, SkipSpace(u.text, 0)))
    IN  Text(DecodeDetected(b))

\* One character of a string as json.dumps writes it with ensure_ascii: the
\* short escapes, the printable ASCII characters as they are, \uXXXX for the
\* rest, twice for a code point from 0x10000 on.
EscapeChar(c) ==
    CASE c = 34 -> <<"\\", "\"">>
      [] c = 92 -> <<"\\", "\\">>
      [] c = 10 -> <<"\\", "n">>
      [] c = 13 -> <<"\\", "r">>
      [] c = 9  -> <<"\\", "t">>
      [] c = 8  -> <<"\\", "b">>
      [] c = 12 -> <<"\\", "f">>
      [] c \in 32..126 \ {34, 92} -> <<Chr(c)>>
      [] c >= 65536 -> <<"\\", "u">> \o Hex4(55296 + ((c - 65536) \div 1024))
                       \o <<"\\", "u">> \o Hex4(56320 + ((c - 65536) % 1024))
      [] OTHER -> <<"\\", "u">> \o Hex4(c)

encode_basestring_ascii(s) ==
    <<"\"">> \o Flatten([i \in 1..Len(s) |-> EscapeChar(s[i])]) \o <<"\"">>

\* The text of v at nesting depth level: items one to a line, indented by two
\* spaces for each level, after "," and, in a dict, after the key and ": ".
RECURSIVE dumps(_, _)
dumps(v, level) ==
    LET ind   == <<"\n">> \o Repeat(" ", 2 * (level + 1))
        close == <<"\n">> \o Repeat(" ", 2 * level)
        n     == Len(v.items)
        item(i) == dumps(v.items[i], level + 1)
        pair(i) == encode_basestring_ascii(v.keys[i]) \o <<":", " ">> \o item(i)
    IN  CASE v.type = "null" -> Chars(LitNull)
          [] v.type = "true" -> Chars(LitTrue)
          [] v.type = "false" -> Chars(LitFalse)
          [] v.type \in {"int", "float"} -> v.repr
          [] v.type = "str" -> encode_basestring_ascii(v.chars)
          [] v.type = "list" ->
                IF n = 0 THEN <<"[", "]">>
                ELSE <<"[">> \o ind \o Join([i \in 1..n |-> item(i)], <<",">> \o ind)
                     \o close \o <<"]">>
          [] v.type = "dict" ->
                IF n = 0 THEN <<"{", "}">>
                ELSE <<"{">> \o ind \o Join([i \in 1..n |-> pair(i)], <<",">> \o ind)
                     \o close \o <<"}">>

\* json.dumps(v, indent=2): one text, with its line feeds.
json_dumps(v) == dumps(v, 0)

\* ---------------------------------------------------------------- the program

VARIABLES
    argv,          \* sys.argv[1:]: the command-line arguments
    stdin,         \* the text on standard input
    encoding,      \* sys.stdout.encoding: the encoding of the standard streams
    pc,            \* the statement the program is at
    token,         \* main's and pretty_print_jwt's token
    parts,         \* pretty_print_jwt's parts
    header_data,   \* the decoded bytes of the first segment
    payload_data,  \* the decoded bytes of the second segment
    header,        \* the parsed header
    payload,       \* the parsed payload
    exc,           \* the exception being handled
    stdout,        \* the lines written to standard output
    stderr,        \* the lines written to standard error
    rc,            \* the exit status, Running until the program returns
    calls,         \* the calls of decode_base64url and json.loads made so far
    seg,           \* decode_base64url on its own: the segment given
    raw,           \* decode_base64url on its own: the bytes to encode first
    encoded,       \* decode_base64url on its own: whether seg encodes raw
    dpc,           \* decode_base64url on its own: the statement it is at
    data,          \* decode_base64url's data
    result         \* decode_base64url's result

inputs == <<argv, stdin, encoding>>
program == <<pc, token, parts, header_data, payload_data, header, payload, exc,
             stdout, stderr, rc, calls>>
decoder == <<seg, raw, encoded, dpc, data, result>>
vars == <<inputs, program, decoder>>

\* The exit status of a program that has not returned.
Running == -1

NoExc == Exc("", <<>>)

DASH == <<"-">>

RULE == <<"================================================================================">>

\* The program's state as one value; the statements below map one to the next.
State ==
    [pc |-> pc, token |-> token, parts |-> parts, header_data |-> header_data,
     payload_data |-> payload_data, header |-> header, payload |-> payload,
     exc |-> exc, stdout |-> stdout, stderr |-> stderr, rc |-> rc, calls |-> calls,
     encoding |-> encoding]

\* The state main starts in, standard output in UTF-8.
Start ==
    [pc |-> "main", token |-> <<>>, parts |-> <<>>, header_data |-> <<>>,
     payload_data |-> <<>>, header |-> None, payload |-> None, exc |-> NoExc,
     stdout |-> <<>>, stderr |-> <<>>, rc |-> Running, calls |-> <<>>,
     encoding |-> "utf-8"]

Call(fn, arg) == [fn |-> fn, arg |-> arg]

\* The given lines written to a stream, as print(...) does.
WriteLines(stream, lines) == stream \o lines

\* print(line) for each of the lines in turn, then the statement next.  A line
\* that standard output cannot encode raises UnicodeEncodeError inside the
\* try: the lines before it are written, the line and those after it are not.
\* The fixed lines are ASCII without a per cent sign and are always written;
\* the JSON text of a value and the signature segment may be refused.
print_lines(s, lines, next) ==
    LET Raised(t, k) ==
            [t EXCEPT !.stdout = WriteLines(@, SubSeq(lines, 1, k - 1)),
                      !.exc = stdout_encode(t.encoding, lines[k]).exc,
                      !.pc = "except"]
        Printed(t, k) ==
            IF k > Len(lines)
            THEN [t EXCEPT !.stdout = WriteLines(@, lines), !.pc = next]
            ELSE Raised(t, k)
    IN  Printed(s, First([k \in 1..Len(lines) |-> ~stdout_encode(s.encoding, lines[k]).ok]))

\* Lines 67-78: main up to its call of pretty_print_jwt.
main(s, args, input) ==
    IF Len(args) < 1
    THEN [s EXCEPT !.stdout = WriteLines(@, << <<"Usage: decode-jwt.py <jwt-token>">>,
                                          <<"   or: echo <jwt-token> | decode-jwt.py -">> >>),
                   !.rc = 1, !.pc = "done"]
    ELSE IF args[1] = DASH
    THEN [s EXCEPT !.token = Strip(input), !.pc = "split"]
    ELSE [s EXCEPT !.token = args[1], !.pc = "split"]

\* split_token that does not trim the token.
split_token_nostrip(s) ==
    LET ps == Split(s.token, ".")
    IN  IF Len(ps) # 3
        THEN [s EXCEPT !.parts = ps, !.stdout = WriteLines(@, << <<"Error: Invalid JWT format. Expected 3 parts separated by dots.">> >>),
                       !.rc = 1, !.pc = "done"]
        ELSE [s EXCEPT !.parts = ps, !.pc = "decode_header"]

\* split_token with the first segment decoded before the count is checked.
split_token_eager(s) ==
    LET ps == Split(Strip(s.token), ".")
        t  == [s EXCEPT !.calls = Append(@, Call("decode_base64url", 1))]
    IN  IF Len(ps) # 3
        THEN [t EXCEPT !.parts = ps, !.stdout = WriteLines(@, << <<"Error: Invalid JWT format. Expected 3 parts separated by dots.">> >>),
                       !.rc = 1, !.pc = "done"]
        ELSE [s EXCEPT !.parts = ps, !.pc = "decode_header"]

\* split_token that rejects fewer than 3 parts only.
split_token_lt3(s) ==
    LET ps == Split(Strip(s.token), ".")
    IN  IF Len(ps) < 3
        THEN [s EXCEPT !.parts = ps, !.stdout = WriteLines(@, << <<"Error: Invalid JWT format. Expected 3 parts separated by dots.">> >>),
                       !.rc = 1, !.pc = "done"]
        ELSE [s EXCEPT !.parts = ps, !.pc = "decode_header"]

\* Lines 29-33: the token trimmed and split, and the count of its parts checked.
split_token(s) ==
    LET ps == Split(Strip(s.token), ".")
    IN  IF Len(ps) # 3
        THEN [s EXCEPT !.parts = ps,
                       !.stdout = WriteLines(@, << <<"Error: Invalid JWT format. Expected 3 parts separated by dots.">> >>),
                       !.rc = 1, !.pc = "done"]
        ELSE [s EXCEPT !.parts = ps, !.pc = "decode_header"]

\* decode_header that parses the header as soon as it is decoded.
decode_header_and_parse(s) ==
    LET Parsed(u, j) ==
            IF j.ok THEN [u EXCEPT !.header = j.value, !.pc = "decode_payload"]
            ELSE [u EXCEPT !.exc = j.exc, !.pc = "except"]
        Decoded(t, r) ==
            IF r.ok
            THEN Parsed([t EXCEPT !.calls = Append(@, Call("json.loads", 1)),
                                  !.header_data = r.bytes],
                        json_loads(r.bytes))
            ELSE [t EXCEPT !.exc = r.exc, !.pc = "except"]
    IN  Decoded([s EXCEPT !.calls = Append(@, Call("decode_base64url", 1))],
                decode_base64url(s.parts[1]))

\* Line 35: header_data = decode_base64url(parts[0]).
decode_header(s) ==
    LET r == decode_base64url(s.parts[1])
        t == [s EXCEPT !.calls = Append(@, Call("decode_base64url", 1))]
    IN  IF r.ok THEN [t EXCEPT !.header_data = r.bytes, !.pc = "decode_payload"]
        ELSE [t EXCEPT !.exc = r.exc, !.pc = "except"]

\* Line 36: payload_data = decode_base64url(parts[1]).
decode_payload(s) ==
    LET r == decode_base64url(s.parts[2])
        t == [s EXCEPT !.calls = Append(@, Call("decode_base64url", 2))]
    IN  IF r.ok THEN [t EXCEPT !.payload_data = r.bytes, !.pc = "parse_header"]
        ELSE [t EXCEPT !.exc = r.exc, !.pc = "except"]

\* Line 38: header = json.loads(header_data).
parse_header(s) ==
    LET Parsed(t, r) ==
            IF r.ok THEN [t EXCEPT !.header = r.value, !.pc = "parse_payload"]
            ELSE [t EXCEPT !.exc = r.exc, !.pc = "except"]
    IN  Parsed([s EXCEPT !.calls = Append(@, Call("json.loads", 1))], json_loads(s.header_data))

\* Line 39: payload = json.loads(payload_data).
parse_payload(s) ==
    LET Parsed(t, r) ==
            IF r.ok THEN [t EXCEPT !.payload = r.value, !.pc = "print_header"]
            ELSE [t EXCEPT !.exc = r.exc, !.pc = "except"]
    IN  Parsed([s EXCEPT !.calls = Append(@, Call("json.loads", 2))], json_loads(s.payload_data))

\* Lines 41-45: the HEADER block.
print_header(s) ==
    print_lines(s, <<RULE, <<"JWT HEADER:">>, RULE, json_dumps(s.header), <<>> >>,
                "print_payload")

\* Lines 47-51: the PAYLOAD block.
print_payload(s) ==
    print_lines(s, <<RULE, <<"JWT PAYLOAD:">>, RULE, json_dumps(s.payload), <<>> >>,
                "print_signature")

\* print_signature that base64-decodes the signature segment first.
print_signature_decoding(s) ==
    LET r == decode_base64url(s.parts[3])
        t == [s EXCEPT !.calls = Append(@, Call("decode_base64url", 3))]
    IN  IF r.ok
        THEN print_lines(t, <<RULE, <<"JWT SIGNATURE (base64url encoded):">>, RULE,
                              s.parts[3], <<>> >>,
                         "return")
        ELSE [t EXCEPT !.exc = r.exc, !.pc = "except"]

\* Lines 53-57: the SIGNATURE block.
print_signature(s) ==
    print_lines(s, <<RULE, <<"JWT SIGNATURE (base64url encoded):">>, RULE,
                     s.parts[3], <<>> >>,
                "return")

\* Line 59: return 0.
return_ok(s) == [s EXCEPT !.rc = 0, !.pc = "done"]

\* handle_exception that writes its line to standard output.
handle_exception_stdout(s) ==
    [s EXCEPT !.stdout = WriteLines(@, << <<"Error decoding JWT: ">> \o s.exc.msg >>),
              !.rc = 1, !.pc = "done"]

\* Lines 61-63: the handler of any exception raised in lines 29-59, those of
\* the prints of the blocks too.
handle_exception(s) ==
    [s EXCEPT !.stderr = WriteLines(@, << <<"Error decoding JWT: ">> \o s.exc.msg >>),
              !.rc = 1, !.pc = "done"]

\* One statement of pretty_print_jwt.  The decode, parse and print statements
\* go to "except" when they raise.
Step(s) ==
    CASE s.pc = "split"           -> split_token(s)
      [] s.pc = "decode_header"   -> decode_header(s)
      [] s.pc = "decode_payload"  -> decode_payload(s)
      [] s.pc = "parse_header"    -> parse_header(s)
      [] s.pc = "parse_payload"   -> parse_payload(s)
      [] s.pc = "print_header"    -> print_header(s)
      [] s.pc = "print_payload"   -> print_payload(s)
      [] s.pc = "print_signature" -> print_signature(s)
      [] s.pc = "return"          -> return_ok(s)
      [] s.pc = "except"          -> handle_exception(s)

RECURSIVE RunToEnd(_)
RunToEnd(s) == IF s.pc = "done" THEN s ELSE RunToEnd(Step(s))

\* pretty_print_jwt(tok), run to its return, with standard output in the
\* encoding enc.
pretty_print_jwt(tok, enc) ==
    RunToEnd([Start EXCEPT !.pc = "split", !.token = tok, !.encoding = enc])

\* The whole program, run to its exit, with standard output in the encoding enc.
run_main(args, input, enc) == RunToEnd(main([Start EXCEPT !.encoding = enc], args, input))

\* What a run shows to its caller: the exit status and the two streams.
Outcome(s) == [rc |-> s.rc, stdout |-> s.stdout, stderr |-> s.stderr]

\* ---------------------------------------------------------------- the actions

Becomes(n) ==
    /\ pc' = n.pc /\ token' = n.token /\ parts' = n.parts
    /\ header_data' = n.header_data /\ payload_data' = n.payload_data
    /\ header' = n.header /\ payload' = n.payload /\ exc' = n.exc
    /\ stdout' = n.stdout /\ stderr' = n.stderr /\ rc' = n.rc /\ calls' = n.calls
    /\ UNCHANGED <<inputs, decoder>>

Main == pc = "main" /\ Becomes(main(State, argv, stdin))
SplitToken == pc = "split" /\ Becomes(split_token(State))
DecodeHeader == pc = "decode_header" /\ Becomes(decode_header(State))
DecodePayload == pc = "decode_payload" /\ Becomes(decode_payload(State))
ParseHeader == pc = "parse_header" /\ Becomes(parse_header(State))
ParsePayload == pc = "parse_payload" /\ Becomes(parse_payload(State))
PrintHeader == pc = "print_header" /\ Becomes(print_header(State))
PrintPayload == pc = "print_payload" /\ Becomes(print_payload(State))
PrintSignature == pc = "print_signature" /\ Becomes(print_signature(State))
ReturnOk == pc = "return" /\ Becomes(return_ok(State))
HandleException == pc = "except" /\ Becomes(handle_exception(State))

\* A token of an object header and an object payload:
\* {"alg":"HS256"} . {"sub":"1234567890"} . sig
ObjectToken ==
    << "e", "y", "J", "h", "b", "G", "c", "i", "O", "i", "J", "I", "U", "z", "I", "1",
       "N", "i", "J", "9", ".",
       "e", "y", "J", "z", "d", "W", "I", "i", "O", "i", "I", "x", "M", "j", "M", "0",
       "N", "T", "Y", "3", "O", "D", "k", "w", "I", "n", "0", ".",
       "s", "i", "g" >>

\* ObjectToken with a payload cut short: its text is no JSON value.
CutToken == SubSeq(ObjectToken, 1, 37) \o <<".", "s", "i", "g">>

\* A token between a vertical tab and a unit separator.
ControlToken == <<"", "M", "Q", ".", "M", "Q", ".", "M", "">>

\* ObjectToken with a signature segment that holds two characters outside ASCII.
AccentToken == SubSeq(ObjectToken, 1, 49) \o <<"s", EAcute, EAcute>>

\* A token of three short segments, the signature one character outside ASCII.
AccentSignature == <<"M", "Q", ".", "M", "Q", ".", EAcute>>

\* A token with a header segment outside ASCII.
AccentHeader == <<EAcute, "Q", ".", "M", "Q", ".", "M">>

\* A token whose header is the JSON string "%".
PercentHeader == <<"I", "i", "U", "i", ".", "M", "Q", ".", "M">>

\* A token whose payload is the JSON array ["%%"].
PercentPayload == <<"M", "Q", ".", "W", "y", "I", "l", "J", "S", "J", "d", ".", "M">>

Examples ==
    {ObjectToken, CutToken, ControlToken, AccentToken, AccentSignature, AccentHeader,
     PercentHeader, PercentPayload}

Tokens == StringsUpTo(TokenAlphabet, MaxTokenLen) \cup Examples

NoResult == [ok |-> FALSE, exc |-> NoExc]

DecoderIdle ==
    /\ seg = <<>> /\ raw = <<>> /\ encoded = FALSE
    /\ dpc = "idle" /\ data = <<>> /\ result = NoResult

\* The encodings of the standard streams.
Encodings == {"utf-8", "ascii", "cp864"}

\* The program started without an argument, with a token as its argument, or
\* with "-" and the token on standard input.  The text on standard input is
\* of characters its encoding has: sys.stdin.read() has returned it.
Init ==
    /\ encoding \in Encodings
    /\ \/ argv = <<>> /\ stdin = <<>>
       \/ argv \in {<<t>> : t \in Tokens} /\ stdin = <<>>
       \/ /\ argv = <<DASH>> /\ stdin \in Tokens
          /\ stdout_encode(encoding, stdin).ok
    /\ pc = Start.pc /\ token = Start.token /\ parts = Start.parts
    /\ header_data = Start.header_data /\ payload_data = Start.payload_data
    /\ header = Start.header /\ payload = Start.payload /\ exc = Start.exc
    /\ stdout = Start.stdout /\ stderr = Start.stderr /\ rc = Start.rc
    /\ calls = Start.calls
    /\ DecoderIdle

Next ==
    \/ Main
    \/ SplitToken
    \/ DecodeHeader
    \/ DecodePayload
    \/ ParseHeader
    \/ ParsePayload
    \/ PrintHeader
    \/ PrintPayload
    \/ PrintSignature
    \/ ReturnOk
    \/ HandleException

Spec == Init /\ [][Next]_vars

\* ------------------------------------------------- decode_base64url on its own

\* The base64url character of value v.
B64UrlChar(v) == IF v = 62 THEN "-" ELSE IF v = 63 THEN "_" ELSE B64Chars[v + 1]

\* base64url text of a byte string, without '=' padding: three bytes give four
\* characters, a last single byte two, a last pair of bytes three.
B64UrlEncode(b) ==
    LET n == (Len(b) * 4 + 2) \div 3
        byte(i) == IF i <= Len(b) THEN b[i] ELSE 0
    IN  [k \in 1..n |->
            LET g == ((k - 1) \div 4) * 3
            IN  CASE k % 4 = 1 -> B64UrlChar(byte(g + 1) \div 4)
                  [] k % 4 = 2 -> B64UrlChar((byte(g + 1) % 4) * 16 + byte(g + 2) \div 16)
                  [] k % 4 = 3 -> B64UrlChar((byte(g + 2) % 16) * 4 + byte(g + 3) \div 64)
                  [] k % 4 = 0 -> B64UrlChar(byte(g + 3) % 64)]

\* The UTF-8 bytes of a text of ASCII characters.
AsciiBytes(t) == [i \in 1..Len(t) |-> Ord(t[i])]

\* Objects written as JSON text, encoded and decoded again:
\* {}, {"alg": "HS256"} and {"sub": "12", "admin": true, "n": [1, -2.5, null]}.
Objects ==
    { JsonDict(<<>>, <<>>),
      JsonDict(<< <<97, 108, 103>> >>, << JsonStr(<<72, 83, 50, 53, 54>>) >>),
      JsonDict(<< <<115, 117, 98>>, <<97, 100, 109, 105, 110>>, <<110>> >>,
               << JsonStr(<<49, 50>>), True,
                  JsonList(<< JsonInt(<<"1">>), JsonFloat(<<"-", "2", ".", "5">>), None >>) >>) }

\* The UTF-8 bytes of their text.
Documents == {AsciiBytes(json_dumps(o)) : o \in Objects}

ProgramIdle ==
    /\ argv = <<>> /\ stdin = <<>> /\ encoding = Start.encoding
    /\ pc = "idle" /\ token = Start.token /\ parts = Start.parts
    /\ header_data = Start.header_data /\ payload_data = Start.payload_data
    /\ header = Start.header /\ payload = Start.payload /\ exc = Start.exc
    /\ stdout = Start.stdout /\ stderr = Start.stderr /\ rc = Start.rc
    /\ calls = Start.calls

\* decode_base64url is given a segment, or the encoding of a byte string.
InitDecode ==
    /\ ProgramIdle
    /\ \/ /\ seg \in StringsUpTo(SegAlphabet, MaxSegLen)
          /\ raw = <<>> /\ encoded = FALSE /\ dpc = "pad" /\ data = seg
       \/ /\ raw \in StringsUpTo(ByteAlphabet, MaxBytes) \cup Documents
          /\ seg = <<>> /\ encoded = FALSE /\ dpc = "encode" /\ data = <<>>
    /\ result = NoResult

\* The caller encodes the bytes and gives the text to decode_base64url.
Encode ==
    /\ dpc = "encode"
    /\ seg' = B64UrlEncode(raw) /\ data' = B64UrlEncode(raw)
    /\ encoded' = TRUE /\ dpc' = "pad"
    /\ UNCHANGED <<raw, result, inputs, program>>

\* Lines 15-17.
AddPadding ==
    /\ dpc = "pad"
    /\ data' = add_padding(data) /\ dpc' = "translate"
    /\ UNCHANGED <<seg, raw, encoded, result, inputs, program>>

\* Line 20.
Translate ==
    /\ dpc = "translate"
    /\ data' = translate(data) /\ dpc' = "decode"
    /\ UNCHANGED <<seg, raw, encoded, result, inputs, program>>

\* Line 22.
B64Decode ==
    /\ dpc = "decode"
    /\ result' = b64decode(data) /\ dpc' = "done"
    /\ UNCHANGED <<seg, raw, encoded, data, inputs, program>>

NextDecode ==
    \/ Encode
    \/ AddPadding
    \/ Translate
    \/ B64Decode

SpecDecode == InitDecode /\ [][NextDecode]_vars

\* ------------------------------------------------------------ vocabulary

\* The number of '.' in a text.
NumDots(s) == Cardinality({i \in 1..Len(s) : s[i] = "."})

\* The text after the last '.' of a text.
AfterLastDot(s) == SubSeq(s, Last([i \in 1..Len(s) |-> s[i] = "."]) + 1, Len(s))

\* The text before the last '.' of a text that has one, the '.' included.
UpToLastDot(s) == SubSeq(s, 1, Len(s) - Len(AfterLastDot(s)))

\* The text the program was given as its token.
Input == IF argv[1] = DASH THEN stdin ELSE argv[1]

HEADER == <<"JWT HEADER:">>
PAYLOAD == <<"JWT PAYLOAD:">>
SIGNATURE == <<"JWT SIGNATURE (base64url encoded):">>

IsLabel(line) == line \in {HEADER, PAYLOAD, SIGNATURE}

\* The labels of the blocks written to a stream, in the order written.
Labels(stream) == SelectSeq(stream, IsLabel)

MalformedLine == <<"Error: Invalid JWT format. Expected 3 parts separated by dots.">>

UsageLines ==
    << <<"Usage: decode-jwt.py <jwt-token>">>,
       <<"   or: echo <jwt-token> | decode-jwt.py -">> >>

\* The four calls of a run in which nothing fails, in their order.
CallOrder ==
    << Call("decode_base64url", 1), Call("decode_base64url", 2),
       Call("json.loads", 1), Call("json.loads", 2) >>

THREE_BLOCKS == <<HEADER, PAYLOAD, SIGNATURE>>

\* The fifteen lines of the three blocks of a run whose header and payload are
\* parsed.
Blocks ==
    << RULE, HEADER, RULE, json_dumps(header), <<>>,
       RULE, PAYLOAD, RULE, json_dumps(payload), <<>>,
       RULE, SIGNATURE, RULE, parts[3], <<>> >>

\* The lines of the HEADER and PAYLOAD blocks in an output: its first ten.
HeaderPayload(out) == SubSeq(out, 1, IF Len(out) < 10 THEN Len(out) ELSE 10)

\* Whether the exception handled was raised by a print of the blocks.
PrintFailed == exc.type = "UnicodeEncodeError"

\* The numbers of lines on standard output when a print of the blocks raises:
\* the heading of the HEADER block; the HEADER block and the heading of the
\* PAYLOAD block; both blocks and the heading of the SIGNATURE block.
PartialLengths == {3, 8, 13}

\* The print that raised was the one after the first k lines of the blocks.
PrintFailedAfter(k) ==
    /\ stdout = SubSeq(Blocks, 1, k)
    /\ \A n \in PartialLengths : n < k => stdout_encode(encoding, Blocks[n + 1]).ok
    /\ stdout_encode(encoding, Blocks[k + 1]) = [ok |-> FALSE, exc |-> exc]

\* Whether the pc is past main, in pretty_print_jwt.
InPrettyPrint == pc \notin {"main", "idle"} /\ argv # <<>>

\* ------------------------------------------------------------------ claims

\* C1: a token whose trimmed text does not hold exactly two '.' (so it does
\* not split into exactly 3 parts) ends pretty_print_jwt at once: the only
\* output is the "Expected 3 parts" line, the exit status is 1, no HEADER,
\* PAYLOAD or SIGNATURE block is written, and neither decode_base64url nor
\* json.loads has been called.
Thm_C1 ==
    (InPrettyPrint /\ pc # "split" /\ NumDots(Input) # 2) =>
        /\ pc = "done" /\ rc = 1
        /\ stdout = <<MalformedLine>> /\ stderr = <<>>
        /\ Labels(stdout) = <<>>
        /\ calls = <<>>

\* A token of four parts, with a first segment that would decode, was refused.
Wit_C1 ==
    /\ pc = "done" /\ argv # <<>> /\ NumDots(Input) = 3
    /\ decode_base64url(parts[1]).ok /\ parts[1] # <<>>
    /\ rc = 1 /\ stdout = <<MalformedLine>>

\* C2 as stated: the output is all or nothing.  A run ends with status 0 and
\* exactly the blocks HEADER, PAYLOAD, SIGNATURE in that order, or with status 1
\* and no block; no run ends with a HEADER block and no PAYLOAD and SIGNATURE
\* block; and a block is on standard output only after both the header and the
\* payload were decoded and parsed without an exception.
Orig_C2 ==
    /\ pc = "done" =>
          \/ rc = 0 /\ Labels(stdout) = THREE_BLOCKS
          \/ rc = 1 /\ Labels(stdout) = <<>>
    /\ Labels(stdout) # <<>> =>
          /\ calls = CallOrder
          /\ json_loads(decode_base64url(parts[1]).bytes).ok
          /\ json_loads(decode_base64url(parts[2]).bytes).ok

\* C8 as stated: a failing run reports on one stream, a usage error on standard
\* error and every format error on standard output.
Orig_C8 ==
    (pc = "done" /\ rc = 1) =>
        IF argv = <<>> THEN stdout = <<>> /\ stderr # <<>>
        ELSE stderr = <<>> /\ Len(stdout) = 1

\* C8, amended: every failing run exits with status 1 and writes one error
\* message to one stream, decided by the kind of error.  The usage message
\* (two lines) and the wrong-part-count line go to standard output; the line
\* of a base64 or JSON failure goes to standard error, and nothing is written
\* to the other stream.  The line of a print of the blocks that raised goes
\* to standard error too, and standard output holds the lines printed before
\* it: the blocks up to the heading of the one whose text standard output
\* cannot encode.  A successful run writes nothing to standard error.
Thm_C8 ==
    pc = "done" =>
        IF rc = 0 THEN stderr = <<>> /\ exc = NoExc
        ELSE /\ rc = 1
             /\ IF argv = <<>> THEN stdout = UsageLines /\ stderr = <<>>
                ELSE IF NumDots(Input) # 2
                THEN stdout = <<MalformedLine>> /\ stderr = <<>>
                ELSE /\ stderr = << <<"Error decoding JWT: ">> \o exc.msg >>
                     /\ IF PrintFailed
                        THEN \E k \in PartialLengths : PrintFailedAfter(k)
                        ELSE /\ stdout = <<>>
                             /\ exc.type \in {"binascii.Error", "JSONDecodeError",
                                              "UnicodeDecodeError", "ValueError"}

\* The print of a payload that standard output cannot encode was reported on
\* standard error, after the HEADER block and the heading of the PAYLOAD block
\* on standard output.
Wit_C8 ==
    /\ pc = "done" /\ rc = 1 /\ PrintFailed
    /\ Len(stdout) = 8 /\ Labels(stdout) = <<HEADER, PAYLOAD>>
    /\ stderr = << <<"Error decoding JWT: ">> \o exc.msg >>

\* C9 as stated: a run succeeds only for a token of exactly 3 non-empty
\* segments.
Orig_C9 ==
    (pc = "done" /\ rc = 0) =>
        LET segs == Split(Strip(Input), ".")
        IN  Len(segs) = 3 /\ \A i \in 1..3 : segs[i] # <<>>

\* C9, amended: a run succeeds only for a token of exactly 3 segments whose
\* header and payload segments are not empty; the signature segment may be
\* empty.
Thm_C9 ==
    (pc = "done" /\ rc = 0) =>
        LET segs == Split(Strip(Input), ".")
        IN  Len(segs) = 3 /\ segs[1] # <<>> /\ segs[2] # <<>>

\* A token with an empty signature segment was reported as a success.
Wit_C9 ==
    /\ pc = "done" /\ rc = 0 /\ argv # <<>>
    /\ NumDots(Input) = 2 /\ AfterLastDot(Strip(Input)) = <<>>
    /\ Labels(stdout) = THREE_BLOCKS

\* The signature segments put in place of a token's own.
OtherSignatures == StringsUpTo(SigAlphabet, MaxSigLen)

\* The runs of whitespace put around a token.
WhitespaceTexts == StringsUpTo(WsAlphabet, MaxWs)

\* C3 as stated: the signature segment is neither decoded nor parsed.  No call
\* of decode_base64url or json.loads is made on the third segment; a token
\* with the same first two segments and any other third segment gives the same
\* exit status and the same HEADER and PAYLOAD blocks; and on success the
\* SIGNATURE block holds the third segment of the trimmed token, character for
\* character.
Orig_C3 ==
    /\ \A i \in 1..Len(calls) : calls[i].arg # 3
    /\ (pc = "done" /\ argv # <<>> /\ NumDots(Input) = 2) =>
          LET t == Strip(Input)
          IN  /\ \A sig \in OtherSignatures :
                    LET o == pretty_print_jwt(UpToLastDot(t) \o sig, encoding)
                    IN  /\ o.rc = rc
                        /\ HeaderPayload(o.stdout) = HeaderPayload(stdout)
              /\ rc = 0 =>
                    SubSeq(stdout, 11, Len(stdout))
                        = <<RULE, SIGNATURE, RULE, AfterLastDot(t), <<>> >>

\* C3, amended: the signature segment is neither decoded nor parsed.  No call
\* of decode_base64url or json.loads is made on the third segment; a token
\* with the same first two segments and any other third segment gives the same
\* output of the HEADER and PAYLOAD blocks, and the same exit status unless
\* standard output cannot encode one of the two third segments: a run that
\* has printed the HEADER and PAYLOAD blocks ends with status 0 when standard
\* output can encode its third segment and with status 1 when it cannot, and a
\* run that has not ends with status 1 and the same output whatever the third
\* segment.  On success the SIGNATURE block holds the third segment of the
\* trimmed token, character for character.
Thm_C3 ==
    /\ \A i \in 1..Len(calls) : calls[i].arg # 3
    /\ (pc = "done" /\ argv # <<>> /\ NumDots(Input) = 2) =>
          LET t == Strip(Input)
          IN  /\ \A sig \in OtherSignatures :
                    LET o == pretty_print_jwt(UpToLastDot(t) \o sig, encoding)
                    IN  /\ HeaderPayload(o.stdout) = HeaderPayload(stdout)
                        /\ IF Len(stdout) >= 10
                           THEN /\ rc = (IF stdout_encode(encoding, AfterLastDot(t)).ok
                                         THEN 0 ELSE 1)
                                /\ o.rc = (IF stdout_encode(encoding, sig).ok THEN 0 ELSE 1)
                                /\ o.exc = (IF o.rc = 0 THEN NoExc
                                            ELSE stdout_encode(encoding, sig).exc)
                           ELSE /\ rc = 1 /\ o.rc = 1
                                /\ o.stderr = stderr /\ o.stdout = stdout
              /\ rc = 0 =>
                    SubSeq(stdout, 11, Len(stdout))
                        = <<RULE, SIGNATURE, RULE, AfterLastDot(t), <<>> >>

\* The signature segment of a token, one character outside ASCII, could not be
\* printed and the run returned 1, where the same token with the signature
\* segment M, which is no base64 text, returns 0 and shows it as it is.
Wit_C3 ==
    /\ pc = "done" /\ rc = 1 /\ argv # <<>> /\ PrintFailed
    /\ AfterLastDot(Strip(Input)) = <<EAcute>>
    /\ ~decode_base64url(<<"M">>).ok
    /\ LET o == pretty_print_jwt(UpToLastDot(Strip(Input)) \o <<"M">>, encoding)
       IN  /\ o.rc = 0 /\ o.stdout[14] = <<"M">>
           /\ SubSeq(o.stdout, 1, 13) = stdout

\* C4: whitespace around the token changes nothing.  The run on the text given
\* (a token with spaces before and after it) has the outcome of
\* pretty_print_jwt on the trimmed text, and so has pretty_print_jwt on a
\* trimmed token with any tabs and line feeds put before and after it;
\* trimming twice is trimming once, so the token read from standard input
\* gives the outcome of the same token given as argument.
Thm_C4 ==
    (pc = "done" /\ argv # <<>>) =>
        /\ Outcome(State) = Outcome(pretty_print_jwt(Strip(Input), encoding))
        /\ Strip(Strip(Input)) = Strip(Input)
        /\ argv[1] = DASH => Outcome(State) = Outcome(run_main(<<stdin>>, <<>>, encoding))
        /\ (argv[1] # DASH /\ Input = Strip(Input)) =>
              \A w1, w2 \in WhitespaceTexts :
                  Outcome(pretty_print_jwt(w1 \o Input \o w2, encoding)) = Outcome(State)

\* A token read from standard input with whitespace after it was decoded.
Wit_C4 ==
    /\ pc = "done" /\ rc = 0 /\ argv = <<DASH>>
    /\ IsSpace(stdin[Len(stdin)]) /\ stdin # Strip(stdin)
    /\ Labels(stdout) = THREE_BLOCKS

\* What raises first for the segments segs, in the order of the four calls:
\* n the number of calls made, exc the exception (NoExc when nothing raises).
FirstFailure(segs) ==
    LET h == decode_base64url(segs[1])
        p == decode_base64url(segs[2])
    IN  IF ~h.ok THEN [n |-> 1, exc |-> h.exc]
        ELSE IF ~p.ok THEN [n |-> 2, exc |-> p.exc]
        ELSE IF ~json_loads(h.bytes).ok THEN [n |-> 3, exc |-> json_loads(h.bytes).exc]
        ELSE IF ~json_loads(p.bytes).ok THEN [n |-> 4, exc |-> json_loads(p.bytes).exc]
        ELSE [n |-> 4, exc |-> NoExc]

\* C10: on a token of 3 segments the calls are made in the order decode
\* header, decode payload, parse header, parse payload; the run stops at the
\* first that raises, makes no later call and reports that exception alone.
\* So a payload that is not base64 is reported before a header that is not
\* JSON.  When none of the four raises, the run goes on to print the blocks.
Thm_C10 ==
    /\ Len(calls) <= 4 /\ calls = SubSeq(CallOrder, 1, Len(calls))
    /\ (pc = "done" /\ argv # <<>> /\ NumDots(Input) = 2) =>
          LET f == FirstFailure(Split(Strip(Input), "."))
          IN  /\ calls = SubSeq(CallOrder, 1, f.n)
              /\ IF f.exc = NoExc
                 THEN /\ SubSeq(stdout, 1, 3) = <<RULE, HEADER, RULE>>
                      /\ IF exc = NoExc THEN rc = 0 /\ stderr = <<>>
                         ELSE rc = 1 /\ PrintFailed
                 ELSE /\ exc = f.exc
                      /\ rc = 1 /\ stdout = <<>>
                      /\ stderr = << <<"Error decoding JWT: ">> \o f.exc.msg >>

\* The header decodes to bytes that are not JSON, the payload is not base64:
\* the payload's decode error is the one reported, and nothing was parsed.
Wit_C10 ==
    /\ pc = "done" /\ rc = 1 /\ Len(parts) = 3
    /\ decode_base64url(parts[1]).ok
    /\ ~json_loads(decode_base64url(parts[1]).bytes).ok
    /\ ~decode_base64url(parts[2]).ok
    /\ exc = decode_base64url(parts[2]).exc
    /\ calls = <<Call("decode_base64url", 1), Call("decode_base64url", 2)>>

\* Whether every character of a segment is of the base64url alphabet.
IsB64UrlText(s) == \A i \in 1..Len(s) : IsB64UrlChar(s[i])

\* C5: round trip.  The base64url text of a byte string, without padding,
\* decodes to that byte string, whatever its length modulo 3; so the JSON text
\* of an object, encoded and decoded, parses to a value equal to the object.
Thm_C5 ==
    /\ (dpc # "encode" /\ encoded) =>
          /\ IsB64UrlText(seg)
          /\ Len(seg) = (Len(raw) * 4 + 2) \div 3
          /\ Len(seg) % 4 = <<0, 2, 3>>[(Len(raw) % 3) + 1]
    /\ (dpc = "done" /\ encoded) =>
          /\ result.ok /\ result.bytes = raw
          /\ \A o \in Objects :
                raw = AsciiBytes(json_dumps(o)) =>
                    json_loads(result.bytes) = [ok |-> TRUE, value |-> o]

\* Two bytes whose text uses both '-' and '_' came back from the decoder.
Wit_C5 ==
    /\ dpc = "done" /\ encoded /\ raw = <<251, 255>>
    /\ seg = <<"-", "_", "8">> /\ data = <<"+", "/", "8", "=">>
    /\ result.ok /\ result.bytes = raw

\* The number of '=' a segment of n characters needs.
PadLen(n) == (4 - (n % 4)) % 4

\* C6: padding.  For a segment of base64url characters only, decode_base64url
\* appends exactly (4 - len % 4) % 4 '=' characters, so the padded length is a
\* multiple of 4 and nothing is added when len % 4 = 0; the decode succeeds
\* when len % 4 is 0, 2 or 3 and raises binascii.Error when len % 4 = 1.
Thm_C6 ==
    (IsB64UrlText(seg) /\ dpc \in {"translate", "decode", "done"}) =>
        /\ Len(data) = Len(seg) + PadLen(Len(seg))
        /\ Len(data) % 4 = 0
        /\ dpc = "translate" => data = seg \o Repeat("=", PadLen(Len(seg)))
        /\ dpc = "done" =>
              IF Len(seg) % 4 = 1
              THEN ~result.ok /\ result.exc.type = "binascii.Error"
              ELSE result.ok /\ Len(result.bytes) = (Len(seg) * 3) \div 4

\* A segment of base64url characters of length 5, one more than a multiple of
\* 4, was padded to 8 characters and refused.
Wit_C6 ==
    /\ dpc = "done" /\ ~encoded /\ Len(seg) = 5 /\ IsB64UrlText(seg)
    /\ Len(data) = 8
    /\ "-" \in {seg[i] : i \in 1..Len(seg)}
    /\ ~result.ok

\* A segment without the '=' padding at its end.
WithoutPadding(s) == SubSeq(s, 1, Last([i \in 1..Len(s) |-> s[i] # "="]))

\* C7 as stated, for the program: a token whose header segment holds a character
\* outside the base64url alphabet ('!', or a '=' that is not padding at the end)
\* is refused by decode_base64url, so pretty_print_jwt exits with status 1.
Orig_C7 ==
    (dpc = "done" /\ ~IsB64UrlText(WithoutPadding(seg))) =>
        pretty_print_jwt(seg \o <<".", "M", "Q", ".", "M">>, encoding).rc = 1

====
